---- MODULE Spec2Model ----
(***************************************************************************)
(* Training orchestration of uncertainty_stream/train.py: the k-fold       *)
(* driver (__main__), the Trainer (construction with resume, the epoch     *)
(* loop with best-model tracking, checkpointing and early stopping) and    *)
(* the training pass over batches (sliding-window filtering and loss       *)
(* aggregation).                                                           *)
(*                                                                         *)
(* Spec      the driver and the epoch loop, one action per epoch, with     *)
(*           process interruption and restart over a persistent checkpoint *)
(*           store.                                                        *)
(* LiveSpec  Spec with weak fairness on the program's own steps.           *)
(* PassSpec  one training pass, one action per batch.                      *)
(*                                                                         *)
(* ModelCheckpoint and EarlyStopping live in utils/training_utils.py,      *)
(* which is not part of the available source; they are modelled from       *)
(* their documented contract.                                              *)
(***************************************************************************)
EXTENDS Integers, Sequences, FiniteSets

\* ---------------------------------------------------------------- bounds
NumEpochs == 12     \* config.num_epochs
NumFolds  == 2      \* len(config.k_fold_splits)
MaxErr    == 2      \* validation errors range over 1..MaxErr
MaxRuns   == 2      \* process executions in one behaviour
MaxSamples == 4     \* samples the training stream yields in one pass
MaxWindows == 2     \* data_loader.n_windows ranges over 1..MaxWindows
MaxLogs   == 2      \* entries glob finds in the log directory
MaxTrainBatches == 2   \* len(train_loader) ranges over 1..MaxTrainBatches
MaxValSamples == 2     \* samples the validation stream holds at most

\* a monitor that gives up one epoch early
Patience_short == 10 - 1

\* __init__: line 40, EarlyStopping(patience=10)
Patience == 10

\* Python's None for min_val_error / early_stopping.best / config.fold
None == 0 - 1
NoFold == 0

ValErrs == 1..MaxErr
Folds == 1..NumFolds
Namespaces == 0..NumFolds

\* an empty checkpoint slot
NoCkpt == [epoch |-> 0, best_error |-> None, num_bad_epochs |-> 0]

VARIABLES
    \* --- Config (class attributes, mutated in place by __main__)
    k_fold, resume_training, resume_from_fold, cfg_fold,
    \* --- __main__
    pc, foldIdx, start_fold, runs,
    \* --- Trainer
    start_epoch, min_val_error, es_best, es_num_bad_epochs, epoch, broke,
    writer,
    \* --- checkpoint store, per namespace
    latest, best,
    \* --- records of what happened (read by the properties only)
    seen, foldsRun, lastSave, lastStep, loaded, epochsRun, savesDone,
    reqResume, nonImpr, cleanup,
    \* --- one training pass (PassSpec)
    loss_fn, sliding_window, agg_sum, n_windows, ppc, losses, epoch_ys,
    epoch_scales, epoch_ws, epoch_preds, crit_in, batches, train_loss,
    \* --- the statements of one epoch (EpochSpec, EvalSpec)
    epc, mode, batch_i, n_train, fetched, n_backward, n_opt_steps, val_error,
    events, log_steps,
    \* --- _get_val_loss_and_err (EvalSpec)
    val_batches, val_losses, val_ys, val_scales, val_ws, val_preds, val_loss

mainVars == <<k_fold, resume_training, resume_from_fold, cfg_fold, pc, foldIdx,
              start_fold, runs, start_epoch, min_val_error, es_best,
              es_num_bad_epochs, epoch, broke, writer, latest, best, seen,
              foldsRun, lastSave, lastStep, loaded, epochsRun, savesDone,
              reqResume, nonImpr, cleanup>>
passVars == <<loss_fn, sliding_window, agg_sum, n_windows, ppc, losses,
              epoch_ys, epoch_scales, epoch_ws, epoch_preds, crit_in, batches,
              train_loss>>
loopVars == <<epc, mode, batch_i, n_train, fetched, n_backward, n_opt_steps,
              val_error, events, log_steps>>
valVars == <<val_batches, val_losses, val_ys, val_scales, val_ws, val_preds,
             val_loss>>
epochVars == <<loopVars, valVars>>
vars == <<mainVars, passVars, epochVars>>

\* ------------------------------------------------------------ helpers
Min(S) == CHOOSE x \in S : \A y \in S : x <= y

\* the checkpoint namespace of the active fold (fold None |-> 0)
Ns == cfg_fold

\* ------------------------------------------- EarlyStopping (training_utils)
\* step(): "if no best error is recorded, or current_error improves on it"
ES_Improves(bestv, cur) == bestv = None \/ cur < bestv

ES_Best(bestv, cur) == IF ES_Improves(bestv, cur) THEN cur ELSE bestv

ES_NumBad(bestv, bad, cur) == IF ES_Improves(bestv, cur) THEN 0 ELSE bad + 1

\* the value step() returns
ES_Stop(bestv, bad, cur) == ES_NumBad(bestv, bad, cur) >= Patience

\* ----------------------------------------- ModelCheckpoint (training_utils)
\* save(is_best, best_error, bad_epoch_count, epoch, ...): the record written
Snapshot(min_err, bad, ep) ==
    [epoch |-> ep, best_error |-> min_err, num_bad_epochs |-> bad]

\* load(): [start_epoch, best_error, bad_epoch_count] of the latest snapshot
Load(ck) == [start_epoch    |-> ck.epoch + 1,
             min_val_error  |-> ck.best_error,
             num_bad_epochs |-> ck.num_bad_epochs]

\* ------------------------------------------------------------- Trainer
\* the comparison of line 183 turned round
NewMinValError_gt(m, v) == IF m = None THEN v ELSE IF v > m THEN v ELSE m

\* train(): lines 178-188, the new value of self.min_val_error
NewMinValError(m, v) == IF m = None THEN v ELSE IF v < m THEN v ELSE m

\* line 183 with <= for <
IsBest_le(m, v) == IF m = None THEN TRUE ELSE v <= m

\* is_best set by the first epoch of the Trainer only
IsBest_first(m, v) == m = None

\* train(): lines 178-188, is_best
IsBest(m, v) == IF m = None THEN TRUE ELSE v < m

\* range(start_epoch, num_epochs), which leaves the last epoch out
LoopDone_short(ep) == ep > NumEpochs - 1

\* range(start_epoch, num_epochs + 2), one epoch too many
LoopDone_long(ep) == ep > NumEpochs + 1

\* train(): line 114, range(start_epoch, num_epochs + 1) is exhausted
LoopDone(ep) == ep > NumEpochs

\* lines 201-204 without the break
BreakOnStop_never(ret) == FALSE

\* train(): lines 201-204, the loop is left when step() returned true
BreakOnStop(ret) == ret

\* __init__: lines 56, 40, the state of a Trainer that does not resume
FreshState == [start_epoch    |-> 1,
               min_val_error  |-> None,
               es_best        |-> None,
               num_bad_epochs |-> 0]

\* lines 59-63 without line 62: the monitor's best is left unset
ResumeState_nobest(ck) == [start_epoch    |-> ck.epoch + 1,
                           min_val_error  |-> ck.best_error,
                           es_best        |-> None,
                           num_bad_epochs |-> ck.num_bad_epochs]

\* __init__: lines 59-63, the state of a Trainer that resumes from ck
ResumeState(ck) == [start_epoch    |-> Load(ck).start_epoch,
                    min_val_error  |-> Load(ck).min_val_error,
                    es_best        |-> Load(ck).min_val_error,
                    num_bad_epochs |-> Load(ck).num_bad_epochs]

NoSave == [is_best |-> FALSE, best_error |-> None, num_bad_epochs |-> 0,
           epoch |-> 0, val_error |-> None]
NoStep == [called |-> FALSE, ret |-> FALSE, reset |-> FALSE]

\* the Trainer's fields, cleanup aside, when no Trainer exists
NoTrainerFields ==
    /\ start_epoch' = 1
    /\ min_val_error' = None
    /\ es_best' = None
    /\ es_num_bad_epochs' = 0
    /\ epoch' = 1
    /\ broke' = FALSE
    /\ writer' = NoFold
    /\ loaded' = FALSE
    /\ lastSave' = NoSave
    /\ lastStep' = NoStep
    /\ epochsRun' = 0
    /\ savesDone' = 0
    /\ nonImpr' = 0

\* what glob finds in the log directory: files and directories
LogKinds == {"file", "dir"}
LogListings == UNION {[1..n -> LogKinds] : n \in 0..MaxLogs}

HasDir(logs) == \E k \in 1..Len(logs) : logs[k] = "dir"

\* __init__: lines 66-77, the cleanup of a Trainer that does not resume.
\* Without a fold os.remove of a directory is caught and followed by
\* shutil.rmtree (lines 70-73); with a fold os.remove stands alone (line 77)
\* and its IsADirectoryError leaves __init__.
Cleanup(f, logs) ==
    IF f = NoFold
    THEN IF HasDir(logs) THEN "rmtree" ELSE "removed"
    ELSE IF HasDir(logs) THEN "IsADirectoryError" ELSE "removed"

\* the Trainer's fields before any Trainer exists in the process
NoTrainer ==
    /\ cleanup' = "none"
    /\ NoTrainerFields

\* Trainer(config), lines 24-81, for the fold f, with logs the listing of
\* the log directory; model_checkpoint.load of a missing snapshot is fatal
TrainerInit(f, logs) ==
    /\ cfg_fold' = f
    /\ foldsRun' = Append(foldsRun, <<f, resume_training>>)
    /\ IF resume_training /\ latest[f] = NoCkpt
       THEN /\ pc' = "fatal"
            /\ NoTrainer
            /\ UNCHANGED seen
       ELSE IF ~resume_training /\ Cleanup(f, logs) = "IsADirectoryError"
       THEN /\ pc' = "fatal"
            /\ cleanup' = Cleanup(f, logs)
            /\ NoTrainerFields
            /\ UNCHANGED seen
       ELSE LET st == IF resume_training THEN ResumeState(latest[f])
                      ELSE FreshState
            IN /\ pc' = "train"
               /\ start_epoch' = st.start_epoch
               /\ min_val_error' = st.min_val_error
               /\ es_best' = st.es_best
               /\ es_num_bad_epochs' = st.num_bad_epochs
               /\ epoch' = st.start_epoch
               /\ broke' = FALSE
               /\ writer' = f
               /\ loaded' = resume_training
               /\ lastSave' = NoSave
               /\ lastStep' = NoStep
               /\ epochsRun' = 0
               /\ savesDone' = 0
               /\ nonImpr' = 0
               /\ cleanup' = IF resume_training THEN "none"
                             ELSE Cleanup(f, logs)
               /\ seen' = IF resume_training THEN seen
                          ELSE [seen EXCEPT ![f] = {}]

\* one iteration of the epoch loop, lines 114-204, with validation error v
TrainEpoch(v) ==
    /\ pc = "train"
    /\ ~broke
    /\ ~LoopDone(epoch)
    /\ LET is_best == IsBest(min_val_error, v)
           newmin  == NewMinValError(min_val_error, v)
           snap    == Snapshot(newmin, es_num_bad_epochs, epoch)
           ret     == ES_Stop(es_best, es_num_bad_epochs, v)
       IN /\ min_val_error' = newmin
          /\ latest' = [latest EXCEPT ![Ns] = snap]
          /\ best' = IF is_best THEN [best EXCEPT ![Ns] = snap] ELSE best
          /\ es_best' = ES_Best(es_best, v)
          /\ es_num_bad_epochs' = ES_NumBad(es_best, es_num_bad_epochs, v)
          /\ broke' = BreakOnStop(ret)
          /\ epoch' = IF BreakOnStop(ret) THEN epoch ELSE epoch + 1
          /\ lastSave' = [is_best |-> is_best, best_error |-> newmin,
                          num_bad_epochs |-> es_num_bad_epochs,
                          epoch |-> epoch, val_error |-> v]
          /\ lastStep' = [called |-> TRUE, ret |-> ret,
                          reset |-> ES_NumBad(es_best, es_num_bad_epochs, v) = 0]
          /\ nonImpr' = IF seen[Ns] = {} \/ v < Min(seen[Ns]) THEN 0
                        ELSE nonImpr + 1
    /\ seen' = [seen EXCEPT ![Ns] = @ \cup {v}]
    /\ epochsRun' = epochsRun + 1
    /\ savesDone' = savesDone + 1
    /\ UNCHANGED <<k_fold, resume_training, resume_from_fold, cfg_fold, pc,
                   foldIdx, start_fold, runs, start_epoch, writer, foldsRun,
                   loaded, reqResume, cleanup, passVars, epochVars>>

\* line 232 left out: the flag keeps its value
ResumeAfterFold_kept == resume_training

\* __main__: line 232, config.resume_training after a fold
ResumeAfterFold == FALSE

\* the loop is over: writer.close() (line 206) and the return to __main__,
\* which clears resume_training (line 232) in the k-fold loop
TrainEnd ==
    /\ pc = "train"
    /\ broke \/ LoopDone(epoch)
    /\ IF k_fold
       THEN /\ resume_training' = ResumeAfterFold
            /\ foldIdx' = foldIdx + 1
            /\ pc' = "for"
       ELSE /\ pc' = "exit"
            /\ UNCHANGED <<resume_training, foldIdx>>
    /\ NoTrainer
    /\ UNCHANGED <<k_fold, resume_from_fold, cfg_fold, start_fold, runs,
                   latest, best, seen, foldsRun, reqResume, passVars, epochVars>>

\* ------------------------------------------------------------ __main__
\* line 219 without the - 1
StartFold_off(resume, rf) == IF resume THEN rf ELSE 0

\* __main__: line 219, start_fold
StartFold(resume, rf) == IF resume THEN rf - 1 ELSE 0

\* lines 215-219
KFoldStart ==
    /\ pc = "start"
    /\ k_fold
    /\ start_fold' = StartFold(resume_training, resume_from_fold)
    /\ foldIdx' = 0
    /\ pc' = "for"
    /\ UNCHANGED <<k_fold, resume_training, resume_from_fold, cfg_fold, runs,
                   start_epoch, min_val_error, es_best, es_num_bad_epochs,
                   epoch, broke, writer, latest, best, seen, foldsRun,
                   lastSave, lastStep, loaded, epochsRun, savesDone,
                   reqResume, nonImpr, cleanup, passVars, epochVars>>

\* lines 222-224: fold < start_fold: continue
ForSkip ==
    /\ pc = "for"
    /\ foldIdx < NumFolds
    /\ foldIdx < start_fold
    /\ foldIdx' = foldIdx + 1
    /\ UNCHANGED <<k_fold, resume_training, resume_from_fold, cfg_fold, pc,
                   start_fold, runs, start_epoch, min_val_error, es_best,
                   es_num_bad_epochs, epoch, broke, writer, latest, best,
                   seen, foldsRun, lastSave, lastStep, loaded, epochsRun,
                   savesDone, reqResume, nonImpr, cleanup, passVars, epochVars>>

\* lines 225-230: config.fold = fold + 1; trainer = Trainer(config)
ForBody ==
    /\ pc = "for"
    /\ foldIdx < NumFolds
    /\ ~(foldIdx < start_fold)
    /\ \E logs \in LogListings : TrainerInit(foldIdx + 1, logs)
    /\ UNCHANGED <<k_fold, resume_training, resume_from_fold, foldIdx,
                   start_fold, runs, latest, best, reqResume, passVars, epochVars>>

\* the for loop of line 222 is exhausted
ForEnd ==
    /\ pc = "for"
    /\ foldIdx >= NumFolds
    /\ pc' = "exit"
    /\ UNCHANGED <<k_fold, resume_training, resume_from_fold, cfg_fold,
                   foldIdx, start_fold, runs, start_epoch, min_val_error,
                   es_best, es_num_bad_epochs, epoch, broke, writer, latest,
                   best, seen, foldsRun, lastSave, lastStep, loaded,
                   epochsRun, savesDone, reqResume, nonImpr, cleanup, passVars, epochVars>>

\* lines 233-235: config.fold = None; trainer = Trainer(config)
SingleRun ==
    /\ pc = "start"
    /\ ~k_fold
    /\ \E logs \in LogListings : TrainerInit(NoFold, logs)
    /\ UNCHANGED <<k_fold, resume_training, resume_from_fold, foldIdx,
                   start_fold, runs, latest, best, reqResume, passVars, epochVars>>

\* the process is interrupted from outside; its memory is gone, the
\* checkpoint store stays
Kill ==
    /\ pc \in {"for", "train"}
    /\ pc' = "killed"
    /\ NoTrainer
    /\ UNCHANGED <<k_fold, resume_training, resume_from_fold, cfg_fold,
                   foldIdx, start_fold, runs, latest, best, seen, foldsRun,
                   reqResume, passVars, epochVars>>

\* train.py is run again, with the resume settings of the new run
Restart ==
    /\ pc \in {"killed", "exit", "fatal"}
    /\ runs < MaxRuns
    /\ runs' = runs + 1
    /\ \E r \in BOOLEAN, rf \in Folds :
          /\ resume_training' = r
          /\ reqResume' = r
          /\ resume_from_fold' = rf
    /\ pc' = "start"
    /\ cfg_fold' = NoFold
    /\ foldIdx' = 0
    /\ start_fold' = 0
    /\ foldsRun' = <<>>
    /\ NoTrainer
    /\ UNCHANGED <<k_fold, latest, best, seen, passVars, epochVars>>

ValIdle ==
    /\ val_batches = <<>>
    /\ val_losses = <<>>
    /\ val_ys = <<>>
    /\ val_scales = <<>>
    /\ val_ws = <<>>
    /\ val_preds = <<>>
    /\ val_loss = [num |-> 0, den |-> 1]

EpochIdle ==
    /\ epc = "off"
    /\ mode = "train"
    /\ batch_i = None
    /\ n_train = 1
    /\ fetched = 0
    /\ n_backward = 0
    /\ n_opt_steps = 0
    /\ val_error = None
    /\ events = <<>>
    /\ log_steps = <<>>
    /\ ValIdle

PassIdle ==
    /\ loss_fn = <<>>
    /\ sliding_window = FALSE
    /\ agg_sum = FALSE
    /\ n_windows = 1
    /\ ppc = "off"
    /\ losses = <<>>
    /\ epoch_ys = <<>>
    /\ epoch_scales = <<>>
    /\ epoch_ws = <<>>
    /\ epoch_preds = <<>>
    /\ crit_in = <<>>
    /\ batches = <<>>
    /\ train_loss = [num |-> 0, den |-> 1]

Init ==
    /\ k_fold \in BOOLEAN
    /\ resume_training \in BOOLEAN
    /\ reqResume = resume_training
    /\ resume_from_fold \in Folds
    /\ cfg_fold = NoFold
    /\ pc = "start"
    /\ foldIdx = 0
    /\ start_fold = 0
    /\ runs = 1
    /\ start_epoch = 1
    /\ min_val_error = None
    /\ es_best = None
    /\ es_num_bad_epochs = 0
    /\ epoch = 1
    /\ broke = FALSE
    /\ writer = NoFold
    /\ latest = [n \in Namespaces |-> NoCkpt]
    /\ best = [n \in Namespaces |-> NoCkpt]
    /\ seen = [n \in Namespaces |-> {}]
    /\ foldsRun = <<>>
    /\ lastSave = NoSave
    /\ lastStep = NoStep
    /\ loaded = FALSE
    /\ epochsRun = 0
    /\ savesDone = 0
    /\ nonImpr = 0
    /\ cleanup = "none"
    /\ PassIdle
    /\ EpochIdle

Program ==
    \/ KFoldStart
    \/ ForSkip
    \/ ForBody
    \/ ForEnd
    \/ SingleRun
    \/ \E v \in ValErrs : TrainEpoch(v)
    \/ TrainEnd

Next ==
    \/ Program
    \/ Kill
    \/ Restart

Spec == Init /\ [][Next]_vars

LiveSpec == Init /\ [][Next]_vars /\ WF_vars(Program)

\* ============================================================ training pass
\* loss names, as character sequences; per-batch loss values
LossNames == {<<"S", "P", "L", "C">>, <<"W", "S", "P", "L">>, <<"M", "S", "E">>}
LossVals == {4, 6}

\* s[:n] of Python
Prefix(s, n) == SubSeq(s, 1, IF Len(s) < n THEN Len(s) ELSE n)

\* __init__: line 41, self.agg_sum
AggSum(name) == Prefix(name, 3) = <<"S", "P", "L">>

RECURSIVE SumSeq(_)
SumSeq(s) == IF s = <<>> THEN 0 ELSE Head(s) + SumSeq(Tail(s))

\* lines 159-162 with the mean taken for every loss
TrainLoss_mean(agg, ls, nw) == [num |-> SumSeq(ls), den |-> Len(ls)]

\* __init__: line 42 and train(): lines 159-162; the quotient is kept exact,
\* as numerator and denominator
TrainLoss(agg, ls, nw) ==
    IF agg THEN [num |-> SumSeq(ls), den |-> nw]
    ELSE [num |-> SumSeq(ls), den |-> Len(ls)]

\* np.concatenate(arrays, axis=0)
RECURSIVE Concatenate(_)
Concatenate(arrays) ==
    IF arrays = <<>> THEN <<>>
    ELSE Head(arrays) \o Concatenate(Tail(arrays))

\* the per-sample parts of a batch
Ys(b)     == [j \in 1..Len(b) |-> <<"y", b[j].id>>]
Scales(b) == [j \in 1..Len(b) |-> <<"scale", b[j].id>>]
Ws(b)     == [j \in 1..Len(b) |-> <<"w", b[j].id>>]
Preds(b)  == [j \in 1..Len(b) |-> <<"pred", b[j].id>>]

\* window_id == n_windows, one past the last window
LastWindow_off(nw) == nw

\* train(): lines 130-136, the index selected by window_id == n_windows - 1
LastWindow(nw) == nw - 1

InLastWindow(smp) == smp.window_id = LastWindow(n_windows)

\* x[window_id == self.n_windows - 1]
Masked(b) == SelectSeq(b, InLastWindow)

\* train(): lines 129-141, what one batch appends to an aggregation list
Accumulate(acc, whole, masked) ==
    IF sliding_window
    THEN IF Len(masked) > 0 THEN Append(acc, masked) ELSE acc
    ELSE Append(acc, whole)

\* train(): line 143, the batch the criterion is computed on
CriterionInput(b) == b

\* the batch the loader yields: window ids ws, samples numbered by position
MakeBatch(i, ws) ==
    [j \in 1..Len(ws) |-> [id |-> <<i, j>>, window_id |-> ws[j]]]

\* the window ids of a non-empty batch of at most n samples
WindowIdSeqs(n) ==
    UNION {[1..k -> 0..(n_windows - 1)] : k \in 1..n}

\* one iteration of the batch loop, lines 119-153
PassBatch(ws, l) ==
    /\ ppc = "batches"
    /\ LET b == MakeBatch(Len(batches) + 1, ws)
       IN /\ batches' = Append(batches, b)
          /\ epoch_ys' = Accumulate(epoch_ys, Ys(b), Ys(Masked(b)))
          /\ epoch_scales' =
                Accumulate(epoch_scales, Scales(b), Scales(Masked(b)))
          /\ epoch_ws' = Accumulate(epoch_ws, Ws(b), Ws(Masked(b)))
          /\ epoch_preds' =
                Accumulate(epoch_preds, Preds(b), Preds(Masked(b)))
          /\ crit_in' = Append(crit_in, CriterionInput(b))
          /\ losses' = Append(losses, l)
    /\ UNCHANGED <<loss_fn, sliding_window, agg_sum, n_windows, ppc,
                   train_loss, mainVars, epochVars>>

\* the stream is exhausted: lines 156-162; np.concatenate of an empty list
\* raises ValueError
PassReduce ==
    /\ ppc = "batches"
    /\ IF epoch_preds = <<>>
       THEN /\ ppc' = "error"
            /\ UNCHANGED <<epoch_ys, epoch_scales, epoch_ws, epoch_preds,
                           train_loss>>
       ELSE /\ ppc' = "done"
            /\ epoch_preds' = Concatenate(epoch_preds)
            /\ epoch_ys' = Concatenate(epoch_ys)
            /\ epoch_ws' = Concatenate(epoch_ws)
            /\ epoch_scales' = Concatenate(epoch_scales)
            /\ train_loss' = TrainLoss(agg_sum, losses, n_windows)
    /\ UNCHANGED <<loss_fn, sliding_window, agg_sum, n_windows, losses,
                   crit_in, batches, mainVars, epochVars>>

MainIdle ==
    /\ k_fold = FALSE
    /\ resume_training = FALSE
    /\ reqResume = FALSE
    /\ resume_from_fold = 1
    /\ cfg_fold = NoFold
    /\ pc = "pass"
    /\ foldIdx = 0
    /\ start_fold = 0
    /\ runs = 1
    /\ start_epoch = 1
    /\ min_val_error = None
    /\ es_best = None
    /\ es_num_bad_epochs = 0
    /\ epoch = 1
    /\ broke = FALSE
    /\ writer = NoFold
    /\ latest = [n \in Namespaces |-> NoCkpt]
    /\ best = [n \in Namespaces |-> NoCkpt]
    /\ seen = [n \in Namespaces |-> {}]
    /\ foldsRun = <<>>
    /\ lastSave = NoSave
    /\ lastStep = NoStep
    /\ loaded = FALSE
    /\ epochsRun = 0
    /\ savesDone = 0
    /\ nonImpr = 0
    /\ cleanup = "none"

PassInit ==
    /\ MainIdle
    /\ EpochIdle
    /\ loss_fn \in LossNames
    /\ agg_sum = AggSum(loss_fn)
    /\ sliding_window \in BOOLEAN
    /\ n_windows \in 1..MaxWindows
    /\ ppc = "batches"
    /\ losses = <<>>
    /\ epoch_ys = <<>>
    /\ epoch_scales = <<>>
    /\ epoch_ws = <<>>
    /\ epoch_preds = <<>>
    /\ crit_in = <<>>
    /\ batches = <<>>
    /\ train_loss = [num |-> 0, den |-> 1]

PassNext ==
    \/ \E ws \in WindowIdSeqs(MaxSamples - Len(Concatenate(batches))),
          l \in LossVals : PassBatch(ws, l)
    \/ PassReduce

PassSpec == PassInit /\ [][PassNext]_vars

\* ======================================================= one epoch, stepwise
\* The body of the epoch loop statement by statement, for a Trainer that was
\* constructed fresh by a single run.  EpochSpec runs all epochs with the
\* validation pass as one step; EvalSpec runs the passes of the first epoch
\* with the validation pass batch by batch.

\* the model keeps the mode it had before the epoch
TrainMode_kept(m) == m

\* train(): line 116, self.model.train()
TrainMode(m) == "train"

\* _get_val_loss_and_err: line 84, self.model.eval()
EvalMode(m) == "eval"

\* early_stopping.step placed ahead of the checkpoint save
AfterSched_stop == "early_stop"

\* train(): lines 175-190, the save follows the scheduler step
AfterSched == "save"

\* train(): lines 193-198, the step of the six add_scalar calls, with last
\* the index of the last training batch
LogStep(ep, last) == ep * last

\* train() is entered: main state of a fresh single run, nothing fetched yet
TrainStart ==
    /\ k_fold = FALSE
    /\ resume_training = FALSE
    /\ reqResume = FALSE
    /\ resume_from_fold = 1
    /\ cfg_fold = NoFold
    /\ pc = "train"
    /\ foldIdx = 0
    /\ start_fold = 0
    /\ runs = 1
    /\ start_epoch = FreshState.start_epoch
    /\ min_val_error = FreshState.min_val_error
    /\ es_best = FreshState.es_best
    /\ es_num_bad_epochs = FreshState.num_bad_epochs
    /\ epoch = FreshState.start_epoch
    /\ broke = FALSE
    /\ writer = NoFold
    /\ latest = [n \in Namespaces |-> NoCkpt]
    /\ best = [n \in Namespaces |-> NoCkpt]
    /\ seen = [n \in Namespaces |-> {}]
    /\ foldsRun = <<<<NoFold, FALSE>>>>
    /\ lastSave = NoSave
    /\ lastStep = NoStep
    /\ loaded = FALSE
    /\ epochsRun = 0
    /\ savesDone = 0
    /\ nonImpr = 0
    /\ cleanup \in {"removed", "rmtree"}
    /\ epc = "head"
    /\ mode = "train"
    /\ batch_i = None
    /\ n_train \in 1..MaxTrainBatches
    /\ fetched = 0
    /\ n_backward = 0
    /\ n_opt_steps = 0
    /\ val_error = None
    /\ events = <<>>
    /\ log_steps = <<>>
    /\ ValIdle

\* line 114-118: the loop takes the next epoch and puts the model in
\* training mode
EHead ==
    /\ pc = "train" /\ epc = "head" /\ ~broke /\ ~LoopDone(epoch)
    /\ epc' = "batches"
    /\ mode' = TrainMode(mode)
    /\ fetched' = 0
    /\ n_backward' = 0
    /\ n_opt_steps' = 0
    /\ events' = <<>>
    /\ UNCHANGED <<batch_i, n_train, val_error, log_steps, valVars, mainVars,
                   passVars>>

\* lines 119-153: one training batch is fetched, the loss is propagated back
\* and the optimizer steps
ETrainBatch ==
    /\ pc = "train" /\ epc = "batches" /\ fetched < n_train
    /\ batch_i' = fetched
    /\ fetched' = fetched + 1
    /\ n_backward' = n_backward + 1
    /\ n_opt_steps' = n_opt_steps + 1
    /\ UNCHANGED <<epc, mode, n_train, val_error, events, log_steps, valVars,
                   mainVars, passVars>>

\* lines 156-165: the training stream is exhausted
ETrainReduce ==
    /\ pc = "train" /\ epc = "batches" /\ fetched = n_train
    /\ epc' = "validate"
    /\ events' = Append(events, <<"train", epoch>>)
    /\ UNCHANGED <<mode, batch_i, n_train, fetched, n_backward, n_opt_steps,
                   val_error, log_steps, valVars, mainVars, passVars>>

\* line 167 enters _get_val_loss_and_err: lines 84-87, eval mode and
\* empty lists
ValBegin ==
    /\ pc = "train" /\ epc = "validate"
    /\ epc' = "val_batches"
    /\ mode' = EvalMode(mode)
    /\ val_batches' = <<>>
    /\ val_losses' = <<>>
    /\ val_ys' = <<>>
    /\ val_scales' = <<>>
    /\ val_ws' = <<>>
    /\ val_preds' = <<>>
    /\ UNCHANGED <<batch_i, n_train, fetched, n_backward, n_opt_steps,
                   val_error, events, log_steps, val_loss, mainVars, passVars>>

\* _get_val_loss_and_err: lines 88-109 as one step, the batches of the
\* validation stream and the return of the validation error to line 167
EValidate(v) ==
    /\ pc = "train" /\ epc = "val_batches"
    /\ epc' = "sched"
    /\ val_error' = v
    /\ events' = Append(events, <<"validate", epoch>>)
    /\ UNCHANGED <<mode, batch_i, n_train, fetched, n_backward, n_opt_steps,
                   log_steps, valVars, mainVars, passVars>>

\* line 175: scheduler.step(val_error)
ESched ==
    /\ pc = "train" /\ epc = "sched"
    /\ epc' = AfterSched
    /\ events' = Append(events, <<"scheduler.step", val_error>>)
    /\ UNCHANGED <<mode, batch_i, n_train, fetched, n_backward, n_opt_steps,
                   val_error, log_steps, valVars, mainVars, passVars>>

\* lines 178-190: min_val_error, is_best and model_checkpoint.save
ESave ==
    /\ pc = "train" /\ epc = "save"
    /\ epc' = "log"
    /\ LET is_best == IsBest(min_val_error, val_error)
           newmin  == NewMinValError(min_val_error, val_error)
           snap    == Snapshot(newmin, es_num_bad_epochs, epoch)
       IN /\ min_val_error' = newmin
          /\ latest' = [latest EXCEPT ![Ns] = snap]
          /\ best' = IF is_best THEN [best EXCEPT ![Ns] = snap] ELSE best
          /\ lastSave' = [is_best |-> is_best, best_error |-> newmin,
                          num_bad_epochs |-> es_num_bad_epochs,
                          epoch |-> epoch, val_error |-> val_error]
    /\ savesDone' = savesDone + 1
    /\ events' = Append(events, <<"save", epoch>>)
    /\ UNCHANGED <<k_fold, resume_training, resume_from_fold, cfg_fold, pc,
                   foldIdx, start_fold, runs, start_epoch, es_best,
                   es_num_bad_epochs, epoch, broke, writer, seen, foldsRun,
                   lastStep, loaded, epochsRun, reqResume, nonImpr, cleanup>>
    /\ UNCHANGED <<mode, batch_i, n_train, fetched, n_backward, n_opt_steps,
                   val_error, log_steps, valVars, passVars>>

\* lines 193-198: the six scalars of the epoch, all at step epoch * i
ELog ==
    /\ pc = "train" /\ epc = "log"
    /\ epc' = "early_stop"
    /\ log_steps' = Append(log_steps, LogStep(epoch, batch_i))
    /\ events' = Append(events, <<"add_scalar", LogStep(epoch, batch_i)>>)
    /\ UNCHANGED <<mode, batch_i, n_train, fetched, n_backward, n_opt_steps,
                   val_error, valVars, mainVars, passVars>>

\* lines 201-204: early_stopping.step(val_error) and the break
EEarlyStop ==
    /\ pc = "train" /\ epc = "early_stop"
    /\ epc' = "head"
    /\ LET ret == ES_Stop(es_best, es_num_bad_epochs, val_error)
       IN /\ es_best' = ES_Best(es_best, val_error)
          /\ es_num_bad_epochs' =
                ES_NumBad(es_best, es_num_bad_epochs, val_error)
          /\ broke' = BreakOnStop(ret)
          /\ epoch' = IF BreakOnStop(ret) THEN epoch ELSE epoch + 1
          /\ lastStep' =
                [called |-> TRUE, ret |-> ret,
                 reset |-> ES_NumBad(es_best, es_num_bad_epochs, val_error) = 0]
    /\ nonImpr' = IF seen[Ns] = {} \/ val_error < Min(seen[Ns]) THEN 0
                  ELSE nonImpr + 1
    /\ seen' = [seen EXCEPT ![Ns] = @ \cup {val_error}]
    /\ epochsRun' = epochsRun + 1
    /\ events' = Append(events, <<"early_stopping.step", val_error>>)
    /\ UNCHANGED <<k_fold, resume_training, resume_from_fold, cfg_fold, pc,
                   foldIdx, start_fold, runs, start_epoch, min_val_error,
                   writer, latest, best, foldsRun, lastSave, loaded,
                   savesDone, reqResume, cleanup>>
    /\ UNCHANGED <<mode, batch_i, n_train, fetched, n_backward, n_opt_steps,
                   val_error, log_steps, valVars, passVars>>

\* line 206: the loop is over, writer.close()
EClose ==
    /\ pc = "train" /\ epc = "head" /\ (broke \/ LoopDone(epoch))
    /\ epc' = "closed"
    /\ UNCHANGED <<mode, batch_i, n_train, fetched, n_backward, n_opt_steps,
                   val_error, events, log_steps, valVars, mainVars, passVars>>

EpochInit ==
    /\ TrainStart
    /\ PassIdle

EpochNext ==
    \/ EHead
    \/ ETrainBatch
    \/ ETrainReduce
    \/ ValBegin
    \/ \E v \in ValErrs : EValidate(v)
    \/ ESched
    \/ ESave
    \/ ELog
    \/ EEarlyStop
    \/ EClose

EpochSpec == EpochInit /\ [][EpochNext]_vars

\* ----------------------------------------------- the validation pass
\* the aggregation lists grown as in the training pass, lines 129-141
ValAccumulate_windowed(acc, whole, masked) == Accumulate(acc, whole, masked)

\* _get_val_loss_and_err: lines 89-91 and 99, every sample is appended
ValAccumulate(acc, whole, masked) == Append(acc, whole)

\* the mean of the batch losses for every loss
ValLoss_mean(agg, ls) == [num |-> SumSeq(ls), den |-> Len(ls)]

\* _get_val_loss_and_err: line 109, self.loss_agg(losses), np.sum or np.mean
\* by line 42
ValLoss(agg, ls) ==
    IF agg THEN [num |-> SumSeq(ls), den |-> 1]
    ELSE [num |-> SumSeq(ls), den |-> Len(ls)]

\* lines 88-101: one validation batch
ValBatch(ws, l) ==
    /\ pc = "train" /\ epc = "val_batches"
    /\ LET b == MakeBatch(Len(val_batches) + 1, ws)
       IN /\ val_batches' = Append(val_batches, b)
          /\ val_ys' = ValAccumulate(val_ys, Ys(b), Ys(Masked(b)))
          /\ val_scales' =
                ValAccumulate(val_scales, Scales(b), Scales(Masked(b)))
          /\ val_ws' = ValAccumulate(val_ws, Ws(b), Ws(Masked(b)))
          /\ val_preds' =
                ValAccumulate(val_preds, Preds(b), Preds(Masked(b)))
          /\ val_losses' = Append(val_losses, l)
    /\ UNCHANGED <<loopVars, val_loss, mainVars, passVars>>

\* lines 103-109: the stream is exhausted; np.concatenate of an empty list
\* raises ValueError
ValReduce(v) ==
    /\ pc = "train" /\ epc = "val_batches"
    /\ IF val_preds = <<>>
       THEN /\ epc' = "error"
            /\ UNCHANGED <<val_ys, val_scales, val_ws, val_preds, val_loss,
                           val_error, events>>
       ELSE /\ epc' = "sched"
            /\ val_preds' = Concatenate(val_preds)
            /\ val_ys' = Concatenate(val_ys)
            /\ val_ws' = Concatenate(val_ws)
            /\ val_scales' = Concatenate(val_scales)
            /\ val_loss' = ValLoss(agg_sum, val_losses)
            /\ val_error' = v
            /\ events' = Append(events, <<"validate", epoch>>)
    /\ UNCHANGED <<mode, batch_i, n_train, fetched, n_backward, n_opt_steps,
                   log_steps, val_batches, val_losses, mainVars, passVars>>

EvalInit ==
    /\ TrainStart
    /\ loss_fn \in LossNames
    /\ agg_sum = AggSum(loss_fn)
    /\ sliding_window \in BOOLEAN
    /\ n_windows \in 1..MaxWindows
    /\ ppc = "off"
    /\ losses = <<>>
    /\ epoch_ys = <<>>
    /\ epoch_scales = <<>>
    /\ epoch_ws = <<>>
    /\ epoch_preds = <<>>
    /\ crit_in = <<>>
    /\ batches = <<>>
    /\ train_loss = [num |-> 0, den |-> 1]

EvalNext ==
    \/ EHead
    \/ ETrainBatch
    \/ ETrainReduce
    \/ ValBegin
    \/ \E ws \in WindowIdSeqs(MaxValSamples - Len(Concatenate(val_batches))),
          l \in LossVals : ValBatch(ws, l)
    \/ \E v \in ValErrs : ValReduce(v)

EvalSpec == EvalInit /\ [][EvalNext]_vars

\* ================================================================ properties
\* the Trainer is inside train(), constructed without / with a checkpoint
InFreshTrainer == pc = "train" /\ ~loaded
InResumedTrainer == pc = "train" /\ loaded

\* a step of Spec that runs one epoch of the current Trainer
EpochStep == pc = "train" /\ pc' = "train" /\ savesDone' = savesDone + 1

\* C1: in a fresh run, after every completed epoch N min_val_error is the
\* minimum of the validation errors of epochs 1..N, it is the best_error
\* handed to ModelCheckpoint.save for epoch N, and it never increases from
\* one epoch to the next.
C1_MinValErrorIsMinimum ==
    /\ [](InFreshTrainer /\ savesDone > 0 =>
            /\ min_val_error = Min(seen[Ns])
            /\ lastSave.best_error = min_val_error
            /\ lastSave.epoch = savesDone)
    /\ [][InFreshTrainer /\ EpochStep /\ min_val_error # None =>
            min_val_error' <= min_val_error]_vars

C1_Witness ==
    /\ InFreshTrainer
    /\ savesDone >= 3
    /\ Cardinality(seen[Ns]) >= 2
    /\ lastSave.val_error > min_val_error

\* C2: save is called with is_best = TRUE only for a validation error
\* strictly below every error observed before in the fold, errors observed
\* before a resume included; an error equal to the minimum leaves the best
\* snapshot alone; the latest snapshot is written at every epoch.
C2_BestOnlyOnStrictImprovement ==
    [][EpochStep =>
         /\ lastSave'.is_best =>
               \A e \in seen[Ns] : lastSave'.val_error < e
         /\ (seen[Ns] # {} /\ lastSave'.val_error = Min(seen[Ns])) =>
               /\ ~lastSave'.is_best
               /\ best' = best
         /\ ~lastSave'.is_best => best' = best
         /\ lastSave'.is_best => best'[Ns].epoch = epoch
         /\ latest'[Ns].epoch = epoch]_vars

C2_Witness ==
    /\ InResumedTrainer
    /\ savesDone >= 1
    /\ ~lastSave.is_best
    /\ lastSave.val_error = min_val_error
    /\ best[Ns].epoch < start_epoch
    /\ latest[Ns].epoch = lastSave.epoch

\* C3: a Trainer constructed with resume_training set on a checkpoint saved
\* at epoch E starts at epoch E + 1 with min_val_error, the monitor's best
\* and the monitor's bad-epoch counter equal to the saved values; if E is
\* the epoch budget it runs no epoch and writes no checkpoint.
C3_ResumeRestoresSavedState ==
    /\ [](InResumedTrainer /\ savesDone = 0 =>
            /\ start_epoch = latest[Ns].epoch + 1
            /\ epoch = start_epoch
            /\ min_val_error = latest[Ns].best_error
            /\ es_best = latest[Ns].best_error
            /\ es_num_bad_epochs = latest[Ns].num_bad_epochs)
    /\ [](InResumedTrainer /\ savesDone = 1 => lastSave.epoch = start_epoch)
    /\ [](InResumedTrainer /\ start_epoch = NumEpochs + 1 =>
            epochsRun = 0 /\ savesDone = 0)
    /\ [][InResumedTrainer /\ start_epoch = NumEpochs + 1 =>
            latest' = latest /\ best' = best]_vars

C3_Witness ==
    /\ InResumedTrainer
    /\ savesDone = 0
    /\ start_epoch > 2
    /\ start_epoch <= NumEpochs
    /\ es_num_bad_epochs > 0
    /\ es_best = latest[Ns].best_error

\* C4: for a fresh monitor with patience 10, step() returns TRUE exactly on
\* the 10th consecutive call that does not improve on the errors before it,
\* and FALSE on every earlier call; an improving call resets the bad-epoch
\* counter to 0 and returns FALSE.
C4_StopOnTenthBadEpoch ==
    InFreshTrainer /\ lastStep.called =>
        /\ lastStep.ret <=> nonImpr = 10
        /\ nonImpr <= 10
        /\ nonImpr = 0 =>
              /\ lastStep.reset
              /\ es_num_bad_epochs = 0
              /\ ~lastStep.ret
        /\ nonImpr > 0 => ~lastStep.reset

C4_Witness ==
    /\ InFreshTrainer
    /\ lastStep.ret
    /\ nonImpr = 10
    /\ savesDone = 12

\* C5: once step() has returned TRUE at the end of epoch E the epoch loop
\* is over: no further epoch runs and no checkpoint is written in the fold;
\* the next event is the return to the driver (next fold or exit).
C5_StopHaltsLoop ==
    /\ [](pc = "train" /\ lastStep.ret => broke /\ epoch = lastSave.epoch)
    /\ [][pc = "train" /\ lastStep.ret =>
            /\ pc' \in {"for", "exit", "killed"}
            /\ latest' = latest
            /\ best' = best
            /\ seen' = seen]_vars

C5_Witness ==
    /\ pc = "train"
    /\ lastStep.ret
    /\ broke
    /\ epoch < NumEpochs
    /\ k_fold

\* the first fold a process is to run, as the claim states it
FirstFold == IF reqResume THEN resume_from_fold ELSE 1

\* C6: with k_fold set the driver runs folds r..n in order when resume is
\* requested from fold r, folds 1..n when it is not (whatever
\* resume_from_fold is), and resume_training is set for no fold but the
\* first one executed.
C6_FoldSequence ==
    k_fold =>
        /\ \A i \in 1..Len(foldsRun) :
              foldsRun[i] = <<FirstFold + i - 1, reqResume /\ i = 1>>
        /\ Len(foldsRun) <= NumFolds - FirstFold + 1
        /\ pc = "exit" => Len(foldsRun) = NumFolds - FirstFold + 1
        /\ pc \in {"train", "fatal"} => cfg_fold = FirstFold + Len(foldsRun) - 1

C6_Witness ==
    /\ k_fold
    /\ pc = "exit"
    /\ reqResume
    /\ resume_from_fold = 2
    /\ foldsRun = <<<<2, TRUE>>>>
    /\ latest[2].epoch = NumEpochs

\* C7: with sliding_window set, a batch appends to the four aggregation
\* lists exactly its samples of window n_windows - 1, in order and once, and
\* nothing when it has none; without it every sample is appended; in both
\* cases the criterion is computed on every sample of every batch.
AllSamples == Concatenate(batches)
IsLastWindow(smp) == smp.window_id = n_windows - 1
Expected == IF sliding_window THEN SelectSeq(AllSamples, IsLastWindow)
            ELSE AllSamples
Flat(acc) == IF ppc = "done" THEN acc ELSE Concatenate(acc)

C7_SlidingWindowFilter ==
    ppc \in {"batches", "done"} =>
        /\ Flat(epoch_ys) = Ys(Expected)
        /\ Flat(epoch_scales) = Scales(Expected)
        /\ Flat(epoch_ws) = Ws(Expected)
        /\ Flat(epoch_preds) = Preds(Expected)
        /\ ppc = "batches" =>
              /\ \A i \in 1..Len(epoch_ys) : epoch_ys[i] # <<>>
              /\ \A i \in 1..Len(epoch_preds) : epoch_preds[i] # <<>>
              /\ sliding_window =>
                    Len(epoch_preds) = Cardinality(
                        {i \in 1..Len(batches) :
                            \E j \in 1..Len(batches[i]) :
                                IsLastWindow(batches[i][j])})
        /\ crit_in = batches
        /\ Len(losses) = Len(batches)

C7_Witness ==
    /\ ppc = "done"
    /\ sliding_window
    /\ n_windows = 2
    /\ Len(batches) = 3
    /\ \A j \in 1..Len(batches[1]) : batches[1][j].window_id = 0
    /\ Len(batches[2]) = 2
    /\ batches[2][1].window_id = 1
    /\ batches[2][2].window_id = 0
    /\ batches[3][1].window_id = 1
    /\ epoch_ys = <<<<"y", <<2, 1>>>>, <<"y", <<3, 1>>>>>>

\* C8: the reported training loss is sum(losses) / n_windows when the loss
\* name starts with SPL, and the mean of the per-batch losses otherwise.
StartsWithSPL ==
    /\ Len(loss_fn) >= 3
    /\ loss_fn[1] = "S"
    /\ loss_fn[2] = "P"
    /\ loss_fn[3] = "L"

C8_TrainLossAggregation ==
    ppc = "done" =>
        /\ train_loss.den > 0
        /\ IF StartsWithSPL
           THEN train_loss.num * n_windows = SumSeq(losses) * train_loss.den
           ELSE train_loss.num * Len(losses) = SumSeq(losses) * train_loss.den

C8_Witness ==
    /\ ppc = "done"
    /\ StartsWithSPL
    /\ losses = <<4, 6>>
    /\ n_windows = 2
    /\ train_loss.num = 5 * train_loss.den

\* C9: every fold's training ends, and it ends exactly when the epoch
\* num_epochs has completed or the monitor has signalled stop; every process
\* that is started comes to its end.
Running == pc \in {"start", "for", "train"}
Ended == pc \in {"exit", "killed", "fatal"}

C9_Termination ==
    /\ (pc = "train") ~> (pc # "train")
    /\ Running ~> Ended
    /\ [][pc = "train" /\ pc' \in {"for", "exit"} =>
            lastStep.ret \/ epoch = NumEpochs + 1]_vars
    /\ [][pc = "train" /\ (lastStep.ret \/ epoch = NumEpochs + 1) =>
            pc' # "train"]_vars
    /\ [](pc = "train" => epoch <= NumEpochs + 1)

C9_Witness ==
    /\ pc = "exit"
    /\ k_fold
    /\ Len(foldsRun) = NumFolds
    /\ \E f \in Folds : latest[f].epoch < NumEpochs
    /\ \E f \in Folds : latest[f].epoch = NumEpochs

\* C10: every fold other than the one resumed from a checkpoint starts at
\* epoch 1 with no best error, a fresh monitor and its own checkpoint and
\* log namespace, whatever the earlier folds left behind; a fold writes the
\* snapshots of its own namespace only.
NotTheResumedFold == Len(foldsRun) >= 2 \/ ~reqResume

C10_FoldsStartFresh ==
    /\ [](pc = "train" /\ NotTheResumedFold =>
            /\ ~loaded
            /\ start_epoch = 1
            /\ writer = cfg_fold
            /\ cfg_fold = foldsRun[Len(foldsRun)][1]
            /\ \A i \in 1..(Len(foldsRun) - 1) : foldsRun[i][1] # cfg_fold
            /\ savesDone = 0 =>
                  /\ epoch = 1
                  /\ min_val_error = None
                  /\ es_best = None
                  /\ es_num_bad_epochs = 0
                  /\ seen[Ns] = {})
    /\ [][\A n \in Namespaces :
             (pc # "train" \/ n # cfg_fold) =>
                 latest'[n] = latest[n] /\ best'[n] = best[n]]_vars

C10_Witness ==
    /\ pc = "train"
    /\ k_fold
    /\ reqResume
    /\ Len(foldsRun) = 2
    /\ savesDone = 0
    /\ latest[cfg_fold] # NoCkpt
    /\ latest[foldsRun[1][1]].num_bad_epochs > 0
    /\ min_val_error = None


\* C12: the log cleanup of a Trainer that does not resume never leaves
\* __init__ because an entry of the log directory is a directory, with a
\* fold as without one, and a Trainer that resumes performs no cleanup.
C12_CleanupNeverAborts ==
    /\ cleanup # "IsADirectoryError"
    /\ (pc = "train" /\ loaded => cleanup = "none")
    /\ (pc = "train" /\ ~loaded => cleanup \in {"removed", "rmtree"})

\* C14: the bad-epoch count stored in the checkpoint at the end of epoch E
\* is the monitor's counter after it has processed the validation error of
\* epoch E, so that a Trainer resumed from it continues the count of an
\* uninterrupted run.
C14_SavedCounterIsCurrent ==
    pc = "train" /\ savesDone > 0 =>
        /\ lastStep.called
        /\ latest[Ns].epoch = lastSave.epoch
        /\ latest[Ns].num_bad_epochs = es_num_bad_epochs

\* C16: the epochs handed to save by one Trainer are start_epoch,
\* start_epoch + 1, ... with no gap and no repeat, none above num_epochs,
\* and a resumed Trainer starts at the epoch after the last one saved.
C16_EpochSequence ==
    /\ [](pc = "train" /\ savesDone > 0 =>
            /\ lastSave.epoch = start_epoch + savesDone - 1
            /\ lastSave.epoch <= NumEpochs
            /\ latest[Ns].epoch = lastSave.epoch)
    /\ [](InResumedTrainer /\ savesDone = 0 =>
            start_epoch = latest[Ns].epoch + 1)
    /\ [][EpochStep /\ (savesDone > 0 \/ loaded) =>
            /\ lastSave'.epoch = latest[Ns].epoch + 1
            /\ latest'[Ns].epoch = latest[Ns].epoch + 1]_vars

C16_Witness ==
    /\ InResumedTrainer
    /\ start_epoch = 3
    /\ savesDone = 2
    /\ lastSave.epoch = 4

\* C17: after every completed epoch of a fresh or a resumed Trainer
\* min_val_error is the monitor's best, and is_best was true exactly when
\* step() reset the bad-epoch counter to 0.
C17_BestAgreesWithMonitor ==
    /\ pc = "train" => min_val_error = es_best
    /\ pc = "train" /\ savesDone > 0 =>
          /\ lastStep.called
          /\ lastSave.best_error = es_best
          /\ lastSave.is_best <=> lastStep.reset
          /\ lastStep.reset <=> es_num_bad_epochs = 0

C17_Witness ==
    /\ InResumedTrainer
    /\ savesDone = 2
    /\ ~lastSave.is_best
    /\ ~lastStep.reset
    /\ es_num_bad_epochs = 2
    /\ min_val_error = 1

\* C11: within a fold the step of the scalar-log entries rises strictly
\* from epoch to epoch, whatever the number of training batches per epoch,
\* a single batch included.
C11_LogStepIncreasing ==
    \A a \in 1..Len(log_steps) : \A b \in 1..Len(log_steps) :
        a < b => log_steps[a] < log_steps[b]

\* C13: every training batch is followed by exactly one backward pass and
\* one optimizer step before the next batch is fetched; the validation pass
\* adds none, and appends every sample of every validation batch to its
\* lists whatever the sliding_window flag says.
InValidation == epc \in {"validate", "val_batches", "sched", "error"}
ValSamples == Concatenate(val_batches)

C13_StepPerTrainingBatch ==
    /\ epc = "batches" =>
          /\ n_backward = fetched
          /\ n_opt_steps = fetched
          /\ fetched > 0 => batch_i = fetched - 1
    /\ InValidation =>
          /\ n_backward = n_train
          /\ n_opt_steps = n_train
    /\ epc = "val_batches" =>
          /\ Concatenate(val_ys) = Ys(ValSamples)
          /\ Concatenate(val_scales) = Scales(ValSamples)
          /\ Concatenate(val_ws) = Ws(ValSamples)
          /\ Concatenate(val_preds) = Preds(ValSamples)
          /\ Len(val_losses) = Len(val_batches)
    /\ epc = "sched" =>
          /\ val_ys = Ys(ValSamples)
          /\ val_scales = Scales(ValSamples)
          /\ val_ws = Ws(ValSamples)
          /\ val_preds = Preds(ValSamples)
          /\ Len(val_losses) = Len(val_batches)

C13_Witness ==
    /\ epc = "sched"
    /\ sliding_window
    /\ n_windows = 2
    /\ n_train = 2
    /\ n_opt_steps = 2
    /\ Len(val_batches) = 2
    /\ \A k \in 1..Len(ValSamples) : ValSamples[k].window_id = 0
    /\ Len(val_ys) = 2

\* C15: every epoch runs, in this order and each once, the training pass,
\* the validation pass, the scheduler step with the epoch's validation
\* error, the checkpoint save, the log writes and the early-stopping step;
\* the checkpoint changes only in the save statement, once per epoch, and
\* the checkpoint of the epoch that triggers the stop is written before the
\* loop is left.
EpochOf == IF epc \in {"head", "closed"} THEN lastSave.epoch ELSE epoch

EpochEvents == << <<"train", EpochOf>>,
                  <<"validate", EpochOf>>,
                  <<"scheduler.step", val_error>>,
                  <<"save", EpochOf>>,
                  <<"add_scalar", LogStep(EpochOf, batch_i)>>,
                  <<"early_stopping.step", val_error>> >>

EventsAt ==
    CASE epc \in {"batches"} -> 0
      [] epc \in {"validate", "val_batches"} -> 1
      [] epc = "sched" -> 2
      [] epc = "save" -> 3
      [] epc = "log" -> 4
      [] epc = "early_stop" -> 5
      [] OTHER -> IF epochsRun > 0 THEN 6 ELSE 0

SavesAt == IF epc \in {"log", "early_stop"} THEN epochsRun + 1 ELSE epochsRun

C15_EpochOrder ==
    /\ [](/\ Len(events) = EventsAt
          /\ events = SubSeq(EpochEvents, 1, Len(events))
          /\ savesDone = SavesAt
          /\ broke => /\ lastSave.epoch = epoch
                      /\ latest[Ns].epoch = epoch
                      /\ lastSave.val_error = val_error
          /\ epc = "closed" /\ epochsRun > 0 =>
                latest[Ns].epoch = start_epoch + epochsRun - 1)
    /\ [][latest' # latest \/ best' # best \/ savesDone' # savesDone =>
             epc = "save" /\ epc' = "log"]_vars

C15_Witness ==
    /\ epc = "closed"
    /\ broke
    /\ Len(events) = 6
    /\ events[4] = <<"save", 11>>
    /\ latest[Ns].epoch = 11

\* C18: the model is in training mode in every training batch of every
\* epoch, epochs that follow a validation pass included, and in evaluation
\* mode throughout the validation pass.
C18_ModeDiscipline ==
    /\ epc = "batches" => mode = "train"
    /\ epc \in {"val_batches", "sched"} => mode = "eval"

C18_Witness ==
    /\ epc = "batches"
    /\ epoch = 2
    /\ fetched = 1
    /\ lastStep.called
    /\ mode = "train"

\* C19: the reported validation loss is aggregated as the training loss
\* is: the sum of the per-batch losses divided by n_windows when the loss
\* name starts with SPL, and their mean otherwise.
C19_ValLossAsTrainLoss ==
    epc = "sched" =>
        /\ val_loss.den > 0
        /\ val_loss.num * TrainLoss(agg_sum, val_losses, n_windows).den =
              TrainLoss(agg_sum, val_losses, n_windows).num * val_loss.den

\* C19, as the code has it: the validation loss is the plain sum of the
\* per-batch validation losses, not divided by n_windows, when the loss
\* name starts with SPL, and their mean otherwise.
C19_ValLossAggregation ==
    epc = "sched" =>
        /\ val_loss.den > 0
        /\ IF StartsWithSPL
           THEN val_loss.num = SumSeq(val_losses) * val_loss.den
           ELSE val_loss.num * Len(val_losses) =
                   SumSeq(val_losses) * val_loss.den

C19_Witness ==
    /\ epc = "sched"
    /\ StartsWithSPL
    /\ n_windows = 2
    /\ val_losses = <<4, 6>>
    /\ val_loss.num = 10 * val_loss.den

====
